---- MODULE Spec2Model ----
(***************************************************************************)
(* Package gocerr: the Error value type (code, message, field errors) and  *)
(* the accessors built on Parse.  A Go slice is modelled as its header     *)
(* (nil-ness, pointer, len, cap) over a heap of backing arrays, so that    *)
(* copying and aliasing of ErrorFields are visible.  A client program      *)
(* holds a slice fs, a generic error err, the last Parse result (v, ok)    *)
(* and the last GetErrorFields result got, and may write through any       *)
(* slice it holds.  A second specification renders two errors side by     *)
(* side; a third one runs the calls of several goroutines on one error,    *)
(* one memory access at a time.                                            *)
(***************************************************************************)
EXTENDS Integers, Sequences, FiniteSets, TLC

VARIABLES heap, fs, err, origin, v, ok, got, ret, writes, threads

vars == <<heap, fs, err, origin, v, ok, got, ret, writes, threads>>

\* ---------------------------------------------------------------- bounds
\* longest slice the client builds
MaxFields == 2
\* number of element writes / appends the client performs
MaxWrites == 1

\* a negative code, the zero code, a code of several digits
Codes == {0 - 1, 0, 404}
Messages == {"", "q\"\\"}
\* the code and message an error is built with: empty, one of the two
\* zero, neither zero
CodeMessages == {<<0, "">>, <<0, "q\"\\">>, <<0 - 1, "">>, <<404, "q\"\\">>}
\* names the client looks up: empty, present, differing in case, padded
FieldNames == {"", "a", "A", " a"}

\* ------------------------------------------------------------ ErrorField
\* NewErrorField that trims leading spaces (byte 32) off both texts
NewErrorFieldTrimmed(field, message) ==
    LET RECURSIVE TrimLeft(_)
        TrimLeft(s) == IF Len(s) > 0 /\ s[1] = 32 THEN TrimLeft(Tail(s)) ELSE s
    IN  [Field |-> TrimLeft(field), Message |-> TrimLeft(message)]

\* NewErrorField(field, message)
NewErrorField(field, message) ==
    [Field |-> field, Message |-> message]

\* the zero value of ErrorField, as make() fills a new array
ZeroErrorField == [Field |-> "", Message |-> ""]

\* the field errors the client builds: a repeated name, an empty name, an
\* empty message, text that needs escaping
ErrorFieldValues ==
    {NewErrorField("a", "x"), NewErrorField("a", ""),
     NewErrorField("", "z\"\\")}

\* what the client stores when it overwrites an element
Modified == NewErrorField("modified", "w")

\* ---------------------------------------------------------------- slices
\* the nil slice: var fields []ErrorField
NilSlice == [isnil |-> TRUE, ptr |-> 0, len |-> 0, cap |-> 0]

\* []ErrorField{}: allocated, zero length
EmptySlice == [isnil |-> FALSE, ptr |-> 0, len |-> 0, cap |-> 0]

\* the elements a slice header denotes in heap h
Elems(s, h) ==
    IF s.len = 0 THEN <<>> ELSE SubSeq(h[s.ptr], 1, s.len)

\* the address the allocator hands out: the least one not in use
Alloc(h) ==
    CHOOSE a \in 1..(Cardinality(DOMAIN h) + 1) :
        /\ a \notin DOMAIN h
        /\ \A b \in 1..(a - 1) : b \in DOMAIN h

\* make([]ErrorField, n): a fresh zeroed array and a header over all of it
Make(n, h) ==
    IF n = 0
    THEN [s |-> EmptySlice, h |-> h]
    ELSE LET a == Alloc(h)
         IN  [s |-> [isnil |-> FALSE, ptr |-> a, len |-> n, cap |-> n],
              h |-> h @@ (a :> [i \in 1..n |-> ZeroErrorField])]

Min(a, b) == IF a < b THEN a ELSE b

\* copy(dst, src): the first min(len(dst), len(src)) elements, in place
Copy(dst, src, h) ==
    LET n == Min(dst.len, src.len)
    IN  IF n = 0
        THEN h
        ELSE [h EXCEPT ![dst.ptr] =
                 [i \in 1..Len(@) |-> IF i <= n THEN h[src.ptr][i] ELSE @[i]]]

\* s[i] = f (i counted from 1)
Store(s, i, f, h) ==
    [h EXCEPT ![s.ptr] = [@ EXCEPT ![i] = f]]

\* ----------------------------------------------------------------- Error
ZeroError == [Code |-> 0, Message |-> "", ErrorFields |-> NilSlice]

\* New without the defensive copy: the variadic slice is stored as it is
NewShared(code, message, errorFields, h) ==
    [e |-> [Code |-> code, Message |-> message, ErrorFields |-> errorFields],
     h |-> h]

\* New that allocates but does not copy the elements
NewNoCopy(code, message, errorFields, h) ==
    LET m == Make(errorFields.len, h)
    IN  [e |-> [Code |-> code, Message |-> message,
                ErrorFields |-> IF errorFields.len > 0 THEN m.s ELSE NilSlice],
         h |-> m.h]

\* New that allocates and copies even when no field is given
NewAlwaysMake(code, message, errorFields, h) ==
    LET m == Make(errorFields.len, h)
    IN  [e |-> [Code |-> code, Message |-> message, ErrorFields |-> m.s],
         h |-> Copy(m.s, errorFields, m.h)]

\* New(code, message, errorFields...): the error and the heap after it
New(code, message, errorFields, h) ==
    IF errorFields.len > 0
    THEN LET m == Make(errorFields.len, h)
         IN  [e |-> [Code |-> code, Message |-> message, ErrorFields |-> m.s],
              h |-> Copy(m.s, errorFields, m.h)]
    ELSE [e |-> [Code |-> code, Message |-> message, ErrorFields |-> NilSlice],
          h |-> h]

\* Error() that decorates the message
ErrorDecorated(e) ==
    "error: " \o e.Message

\* func (e Error) Error() string
Error(e) ==
    e.Message

\* ------------------------------------------------- generic error values
\* An interface value: its dynamic type and what it holds.  "Error" holds an
\* Error by value; "*Error" points at one; "*fmt.wrapError" wraps one;
\* "*errors.errorString" holds only a text.
NilErr == [dyn |-> "nil", val |-> ZeroError, msg |-> ""]

Box(e) == [dyn |-> "Error", val |-> e, msg |-> e.Message]

\* Parse that accepts every non-nil error
ParseAny(e) ==
    IF e.dyn = "nil" THEN [v |-> ZeroError, ok |-> FALSE, panic |-> FALSE]
    ELSE [v |-> e.val, ok |-> TRUE, panic |-> FALSE]

\* Parse with the one-result assertion err.(Error), which panics on a
\* value of another dynamic type
ParseMustAssert(e) ==
    IF e.dyn = "nil"
    THEN [v |-> ZeroError, ok |-> FALSE, panic |-> FALSE]
    ELSE [v |-> e.val, ok |-> TRUE, panic |-> e.dyn # "Error"]

\* Parse that hands back what the assertion found inside a value of
\* another type
ParseLeak(e) ==
    IF e.dyn = "Error"
    THEN [v |-> e.val, ok |-> TRUE, panic |-> FALSE]
    ELSE [v |-> e.val, ok |-> FALSE, panic |-> FALSE]

\* Parse that looks through pointers and wrappers, as errors.As does
ParseUnwrap(e) ==
    IF e.dyn \in {"Error", "*Error", "*fmt.wrapError"}
    THEN [v |-> e.val, ok |-> TRUE, panic |-> FALSE]
    ELSE [v |-> ZeroError, ok |-> FALSE, panic |-> FALSE]

\* Parse(err): the two-result type assertion customError, ok := err.(Error),
\* which reports a mismatch in ok and never panics
Parse(e) ==
    IF e.dyn = "nil"
    THEN [v |-> ZeroError, ok |-> FALSE, panic |-> FALSE]
    ELSE IF e.dyn = "Error"
         THEN [v |-> e.val, ok |-> TRUE, panic |-> FALSE]
         ELSE [v |-> ZeroError, ok |-> FALSE, panic |-> FALSE]

\* GetErrorCode that reads the payload without consulting Parse's flag
GetErrorCodeRaw(e) ==
    e.val.Code

\* GetErrorCode(err)
GetErrorCode(e) ==
    LET p == Parse(e)
    IN  IF p.ok THEN p.v.Code ELSE 0

\* IsErrorCodeEqual that asks for an Error first
IsErrorCodeEqualStrict(e, code) ==
    LET p == Parse(e)
    IN  p.ok /\ p.v.Code = code

\* IsErrorCodeEqual(err, code)
IsErrorCodeEqual(e, code) ==
    GetErrorCode(e) = code

\* HasErrorFields that tests for nil instead of the length
HasErrorFieldsNotNil(e) ==
    LET p == Parse(e)
    IN  IF p.ok THEN ~p.v.ErrorFields.isnil ELSE FALSE

\* HasErrorFields(err)
HasErrorFields(e) ==
    LET p == Parse(e)
    IN  IF p.ok THEN p.v.ErrorFields.len > 0 ELSE FALSE

\* GetErrorFields that hands out the error's own slice
GetErrorFieldsShared(e, h) ==
    LET p == Parse(e)
    IN  IF p.ok /\ p.v.ErrorFields.len > 0
        THEN [s |-> p.v.ErrorFields, h |-> h]
        ELSE [s |-> NilSlice, h |-> h]

\* GetErrorFields that does not look at Parse's flag
GetErrorFieldsUnchecked(e, h) ==
    IF e.val.ErrorFields.len = 0
    THEN [s |-> NilSlice, h |-> h]
    ELSE LET m == Make(e.val.ErrorFields.len, h)
         IN  [s |-> m.s, h |-> Copy(m.s, e.val.ErrorFields, m.h)]

\* GetErrorFields that copies even when there is nothing to copy
GetErrorFieldsAlwaysMake(e, h) ==
    LET p == Parse(e)
    IN  IF p.ok
        THEN LET m == Make(p.v.ErrorFields.len, h)
             IN  [s |-> m.s, h |-> Copy(m.s, p.v.ErrorFields, m.h)]
        ELSE [s |-> NilSlice, h |-> h]

\* GetErrorFields(err): the returned slice and the heap after the call
GetErrorFields(e, h) ==
    LET p == Parse(e)
    IN  IF p.ok
        THEN IF p.v.ErrorFields.len = 0
             THEN [s |-> NilSlice, h |-> h]
             ELSE LET m == Make(p.v.ErrorFields.len, h)
                  IN  [s |-> m.s, h |-> Copy(m.s, p.v.ErrorFields, m.h)]
        ELSE [s |-> NilSlice, h |-> h]

RECURSIVE HasErrorFieldLoop(_, _, _)
\* for _, field := range customError.ErrorFields, from index i on
HasErrorFieldLoop(fields, fieldName, i) ==
    IF i > Len(fields) THEN FALSE
    ELSE IF fields[i].Field = fieldName THEN TRUE
         ELSE HasErrorFieldLoop(fields, fieldName, i + 1)

\* HasErrorField that compares names without regard to case
HasErrorFieldFold(e, fieldName, h) ==
    LET p == Parse(e)
        fields == Elems(p.v.ErrorFields, h)
        RECURSIVE ToLower(_, _)
        ToLower(s, i) ==
            IF i > Len(s) THEN ""
            ELSE (IF SubSeq(s, i, i) = "A" THEN "a" ELSE SubSeq(s, i, i))
                     \o ToLower(s, i + 1)
    IN  p.ok /\ \E i \in 1..Len(fields) :
                    ToLower(fields[i].Field, 1) = ToLower(fieldName, 1)

\* HasErrorField that looks at the first entry only
HasErrorFieldFirst(e, fieldName, h) ==
    LET p == Parse(e)
        fields == Elems(p.v.ErrorFields, h)
    IN  p.ok /\ Len(fields) > 0 /\ fields[1].Field = fieldName

\* HasErrorField(err, fieldName)
HasErrorField(e, fieldName, h) ==
    LET p == Parse(e)
    IN  IF p.ok THEN HasErrorFieldLoop(Elems(p.v.ErrorFields, h), fieldName, 1)
        ELSE FALSE

RECURSIVE GetErrorFieldMessageLoop(_, _, _)
\* for _, field := range customError.ErrorFields, from index i on
GetErrorFieldMessageLoop(fields, fieldName, i) ==
    IF i > Len(fields) THEN ""
    ELSE IF fields[i].Field = fieldName THEN fields[i].Message
         ELSE GetErrorFieldMessageLoop(fields, fieldName, i + 1)

\* GetErrorFieldMessage that returns the last match
GetErrorFieldMessageLast(e, fieldName, h) ==
    LET p == Parse(e)
        fields == Elems(p.v.ErrorFields, h)
        hits == {i \in 1..Len(fields) : fields[i].Field = fieldName}
    IN  IF p.ok /\ hits # {}
        THEN fields[CHOOSE i \in hits : \A j \in hits : j <= i].Message
        ELSE ""

\* GetErrorFieldMessage(err, fieldName)
GetErrorFieldMessage(e, fieldName, h) ==
    LET p == Parse(e)
    IN  IF p.ok
        THEN GetErrorFieldMessageLoop(Elems(p.v.ErrorFields, h), fieldName, 1)
        ELSE ""

\* ErrorFieldCount that reads the payload without consulting Parse
ErrorFieldCountRaw(e) ==
    e.val.ErrorFields.len

\* ErrorFieldCount(err)
ErrorFieldCount(e) ==
    LET p == Parse(e)
    IN  IF p.ok THEN p.v.ErrorFields.len ELSE 0

\* ------------------------------------------------------------ formatting
\* the decimal digit d as text
Digit(d) ==
    SubSeq("0123456789", d + 1, d + 1)

RECURSIVE Utoa(_)
Utoa(n) ==
    IF n < 10 THEN Digit(n) ELSE Utoa(n \div 10) \o Digit(n % 10)

\* the verb %d
Itoa(n) ==
    IF n < 0 THEN "-" \o Utoa(0 - n) ELSE Utoa(n)

RECURSIVE QuoteFrom(_, _)
\* the escaped text of s from byte i on: " and \ get a backslash
QuoteFrom(s, i) ==
    IF i > Len(s) THEN ""
    ELSE LET c == SubSeq(s, i, i)
         IN  (IF c = "\"" \/ c = "\\" THEN "\\" \o c ELSE c)
                 \o QuoteFrom(s, i + 1)

\* %q that wraps the text in quotes and escapes nothing
QuoteRaw(s) ==
    "\"" \o s \o "\""

\* the verb %q
Quote(s) ==
    "\"" \o QuoteFrom(s, 1) \o "\""

RECURSIVE StringLoopTrailing(_, _)
\* a rendering loop that writes the separator after every field
StringLoopTrailing(fields, i) ==
    IF i > Len(fields) THEN ""
    ELSE "{Field: " \o Quote(fields[i].Field)
             \o ", Message: " \o Quote(fields[i].Message) \o "}, "
             \o StringLoopTrailing(fields, i + 1)

RECURSIVE StringLoop(_, _)
\* the rendering loop of String() from index i on
StringLoop(fields, i) ==
    IF i > Len(fields) THEN ""
    ELSE (IF i > 1 THEN ", " ELSE "")
             \o "{Field: " \o Quote(fields[i].Field)
             \o ", Message: " \o Quote(fields[i].Message) \o "}"
             \o StringLoop(fields, i + 1)

\* func (e Error) String() string
String(e, h) ==
    IF e.ErrorFields.len = 0
    THEN "Error{Code: " \o Itoa(e.Code) \o ", Message: " \o Quote(e.Message) \o "}"
    ELSE "Error{Code: " \o Itoa(e.Code) \o ", Message: " \o Quote(e.Message)
             \o ", ErrorFields: [" \o StringLoop(Elems(e.ErrorFields, h), 1) \o "]}"

\* IsEmpty that tells a nil slice from an empty one
IsEmptyNilOnly(e) ==
    e.Code = 0 /\ e.Message = "" /\ e.ErrorFields.isnil

\* IsEmpty that ignores the fields
IsEmptyNoFields(e) ==
    e.Code = 0 /\ e.Message = ""

\* func (e Error) IsEmpty() bool
IsEmpty(e) ==
    e.Code = 0 /\ e.Message = "" /\ e.ErrorFields.len = 0

\* ------------------------------------------------------ the client program
\* the backing arrays some variable of the client still refers to
Live(f, e, pv, g) ==
    {f.ptr, e.val.ErrorFields.ptr, pv.ErrorFields.ptr, g.ptr} \ {0}

\* the heap after the garbage collector has dropped unreachable arrays
Collect(h, f, e, pv, g) ==
    [a \in (DOMAIN h \cap Live(f, e, pv, g)) |-> h[a]]

\* all sequences over S of length at most n
SeqsUpTo(S, n) ==
    UNION {[1..k -> S] : k \in 0..n}

\* the goroutines that call into the package at the same time
Threads == {1, 2}

\* a goroutine between two calls
Idle == [pc |-> "idle"]

\* no call has returned since the state last changed
NoRet == [op |-> "none"]

\* The client starts with a slice fs of field errors: nil, empty, or
\* fs := make([]ErrorField, k, c) filled with NewErrorField values, where the
\* capacity c leaves room for at most one more element.
Init ==
    /\ \E elems \in SeqsUpTo(ErrorFieldValues, MaxFields),
          spare \in 0..1, isnil \in BOOLEAN :
           /\ isnil => Len(elems) = 0 /\ spare = 0
           /\ LET m == Make(Len(elems) + spare, <<>>)
              IN  /\ fs = IF isnil THEN NilSlice
                          ELSE [m.s EXCEPT !.len = Len(elems)]
                  /\ heap = IF Len(elems) + spare = 0 THEN <<>>
                            ELSE [m.h EXCEPT ![m.s.ptr] =
                                     [i \in 1..Len(@) |->
                                         IF i <= Len(elems) THEN elems[i]
                                         ELSE @[i]]]
    /\ err = NilErr
    /\ origin = "unset"
    /\ v = ZeroError
    /\ ok = FALSE
    /\ got = NilSlice
    /\ ret = NoRet
    /\ writes = 0
    /\ threads = [t \in Threads |-> Idle]

\* fs[i] = Modified
WriteCaller ==
    /\ origin # "unset"
    /\ writes < MaxWrites
    /\ \E i \in 1..fs.len : heap' = Store(fs, i, Modified, heap)
    /\ writes' = writes + 1
    /\ ret' = NoRet
    /\ UNCHANGED <<threads, fs, err, origin, v, ok, got>>

\* fs = append(fs, Modified): in place when capacity is left, else into a
\* new, larger array whose capacity the runtime chooses
AppendCaller ==
    /\ origin # "unset"
    /\ writes < MaxWrites
    /\ IF fs.len < fs.cap
       THEN /\ fs' = [fs EXCEPT !.len = fs.len + 1]
            /\ heap' = Store(fs, fs.len + 1, Modified, heap)
       ELSE \E newcap \in (fs.len + 1)..(fs.len + 2) :
                LET m == Make(newcap, heap)
                    s == [m.s EXCEPT !.len = fs.len + 1]
                IN  /\ fs' = s
                    /\ heap' = Collect(
                           Store(s, fs.len + 1, Modified, Copy(s, fs, m.h)),
                           fs', err, v, got)
    /\ writes' = writes + 1
    /\ ret' = NoRet
    /\ UNCHANGED <<threads, err, origin, v, ok, got>>

\* err = New(c, m, fs...)
CallNew ==
    /\ origin = "unset"
    /\ \E cm \in CodeMessages :
           LET c == cm[1]
               m == cm[2]
               r == New(c, m, fs, heap)
           IN  /\ err' = Box(r.e)
               /\ heap' = r.h
               /\ ret' = [op |-> "New", code |-> c, message |-> m,
                          fields |-> Elems(fs, heap)]
    /\ origin' = "New"
    /\ UNCHANGED <<threads, fs, v, ok, got, writes>>

\* err = Error{Code: c, Message: m, ErrorFields: fs}
Literal ==
    /\ origin = "unset"
    /\ \E cm \in CodeMessages :
           err' = Box([Code |-> cm[1], Message |-> cm[2], ErrorFields |-> fs])
    /\ origin' = "literal"
    /\ ret' = [op |-> "Literal"]
    /\ UNCHANGED <<threads, heap, fs, v, ok, got, writes>>

\* err = nil
BoxNil ==
    /\ origin = "unset"
    /\ err' = NilErr
    /\ origin' = "nil"
    /\ ret' = NoRet
    /\ UNCHANGED <<threads, heap, fs, v, ok, got, writes>>

\* err = errors.New(m)
BoxErrorString ==
    /\ origin = "unset"
    /\ \E m \in Messages :
           err' = [dyn |-> "*errors.errorString", val |-> ZeroError, msg |-> m]
    /\ origin' = "errors.New"
    /\ ret' = NoRet
    /\ UNCHANGED <<threads, heap, fs, v, ok, got, writes>>

\* err = &e, for the e just built
BoxPointer ==
    /\ ret.op \in {"New", "Literal"}
    /\ err' = [err EXCEPT !.dyn = "*Error"]
    /\ ret' = NoRet
    /\ UNCHANGED <<threads, heap, fs, origin, v, ok, got, writes>>

\* err = fmt.Errorf("w: %w", e), for the e just built
BoxWrap ==
    /\ ret.op \in {"New", "Literal"}
    /\ err' = [err EXCEPT !.dyn = "*fmt.wrapError", !.msg = "w: " \o err.msg]
    /\ ret' = NoRet
    /\ UNCHANGED <<threads, heap, fs, origin, v, ok, got, writes>>

\* v, ok = Parse(err)
CallParse ==
    /\ origin # "unset"
    /\ ~Parse(err).panic
    /\ LET p == Parse(err)
       IN  /\ v' = p.v
           /\ ok' = p.ok
           /\ heap' = Collect(heap, fs, err, v', got)
    /\ ret' = [op |-> "Parse"]
    /\ UNCHANGED <<threads, fs, err, origin, got, writes>>

\* v.ErrorFields[i] = Modified
WriteParsed ==
    /\ writes < MaxWrites
    /\ \E i \in 1..v.ErrorFields.len :
           heap' = Store(v.ErrorFields, i, Modified, heap)
    /\ writes' = writes + 1
    /\ ret' = NoRet
    /\ UNCHANGED <<threads, fs, err, origin, v, ok, got>>

\* got = GetErrorFields(err)
CallGetErrorFields ==
    /\ origin # "unset"
    /\ ~Parse(err).panic
    /\ LET r == GetErrorFields(err, heap)
       IN  /\ got' = r.s
           /\ heap' = Collect(r.h, fs, err, v, got')
           /\ ret' = [op |-> "GetErrorFields",
                      fresh |-> r.s.ptr \notin DOMAIN heap]
    /\ UNCHANGED <<threads, fs, err, origin, v, ok, writes>>

\* got[i] = Modified
WriteGot ==
    /\ writes < MaxWrites
    /\ \E i \in 1..got.len : heap' = Store(got, i, Modified, heap)
    /\ writes' = writes + 1
    /\ ret' = NoRet
    /\ UNCHANGED <<threads, fs, err, origin, v, ok, got>>

\* The client asks its questions about err once err is built and before it
\* overwrites anything; what a question answers after a write is computed
\* from the operators in the properties below.
Querying ==
    origin # "unset" /\ writes = 0

\* the calls that only return a value; a call that panics does not return
CallGetErrorCode ==
    /\ Querying
    /\ ~Parse(err).panic
    /\ ret' = [op |-> "GetErrorCode", val |-> GetErrorCode(err)]
    /\ UNCHANGED <<threads, heap, fs, err, origin, v, ok, got, writes>>

CallIsErrorCodeEqual ==
    /\ Querying
    /\ ~Parse(err).panic
    /\ \E c \in Codes :
           ret' = [op |-> "IsErrorCodeEqual", code |-> c,
                   val |-> IsErrorCodeEqual(err, c)]
    /\ UNCHANGED <<threads, heap, fs, err, origin, v, ok, got, writes>>

CallHasErrorFields ==
    /\ Querying
    /\ ~Parse(err).panic
    /\ ret' = [op |-> "HasErrorFields", val |-> HasErrorFields(err)]
    /\ UNCHANGED <<threads, heap, fs, err, origin, v, ok, got, writes>>

CallHasErrorField ==
    /\ Querying
    /\ ~Parse(err).panic
    /\ \E n \in FieldNames :
           ret' = [op |-> "HasErrorField", name |-> n,
                   val |-> HasErrorField(err, n, heap)]
    /\ UNCHANGED <<threads, heap, fs, err, origin, v, ok, got, writes>>

CallGetErrorFieldMessage ==
    /\ Querying
    /\ ~Parse(err).panic
    /\ \E n \in FieldNames :
           ret' = [op |-> "GetErrorFieldMessage", name |-> n,
                   val |-> GetErrorFieldMessage(err, n, heap)]
    /\ UNCHANGED <<threads, heap, fs, err, origin, v, ok, got, writes>>

CallErrorFieldCount ==
    /\ Querying
    /\ ~Parse(err).panic
    /\ ret' = [op |-> "ErrorFieldCount", val |-> ErrorFieldCount(err)]
    /\ UNCHANGED <<threads, heap, fs, err, origin, v, ok, got, writes>>

\* the methods, on the Error held in err (recv "err") or on v (recv "v")
Receiver(recv) ==
    IF recv = "err" THEN err.val ELSE v

CallIsEmpty ==
    /\ Querying
    /\ \E recv \in {"err", "v"} :
           /\ recv = "err" => err.dyn = "Error"
           /\ ret' = [op |-> "IsEmpty", recv |-> recv,
                      val |-> IsEmpty(Receiver(recv))]
    /\ UNCHANGED <<threads, heap, fs, err, origin, v, ok, got, writes>>

CallString ==
    /\ Querying
    /\ \E recv \in {"err", "v"} :
           /\ recv = "err" => err.dyn = "Error"
           /\ ret' = [op |-> "String", recv |-> recv,
                      val |-> String(Receiver(recv), heap)]
    /\ UNCHANGED <<threads, heap, fs, err, origin, v, ok, got, writes>>

CallError ==
    /\ Querying
    /\ \E recv \in {"err", "v"} :
           /\ recv = "err" => err.dyn = "Error"
           /\ ret' = [op |-> "Error", recv |-> recv,
                      val |-> Error(Receiver(recv))]
    /\ UNCHANGED <<threads, heap, fs, err, origin, v, ok, got, writes>>

Next ==
    \/ WriteCaller
    \/ AppendCaller
    \/ CallNew
    \/ Literal
    \/ BoxNil
    \/ BoxErrorString
    \/ BoxPointer
    \/ BoxWrap
    \/ CallParse
    \/ WriteParsed
    \/ CallGetErrorFields
    \/ WriteGot
    \/ CallGetErrorCode
    \/ CallIsErrorCodeEqual
    \/ CallHasErrorFields
    \/ CallHasErrorField
    \/ CallGetErrorFieldMessage
    \/ CallErrorFieldCount
    \/ CallIsEmpty
    \/ CallString
    \/ CallError

Spec == Init /\ [][Next]_vars

\* ------------------------------------------- two errors rendered side by side
\* field errors whose texts hold the punctuation String() itself writes
RenderFieldValues ==
    {NewErrorField("a", "x"),
     NewErrorField("a\", Message: \"b", "c"),
     NewErrorField("a", "b\", Message: \"c")}

\* []ErrorField{elems...}: the header and the heap after it
SliceLiteral(elems, h) ==
    LET m == Make(Len(elems), h)
    IN  [s |-> m.s,
         h |-> IF Len(elems) = 0 THEN h ELSE [m.h EXCEPT ![m.s.ptr] = elems]]

\* Two Error literals: the first boxed in err over the slice fs, the second
\* in v over the slice got; a slice of no element is nil or allocated.
InitRender ==
    /\ \E c1 \in Codes, c2 \in Codes, m1 \in Messages, m2 \in Messages,
          f1 \in SeqsUpTo(RenderFieldValues, MaxFields),
          f2 \in SeqsUpTo(RenderFieldValues, MaxFields),
          n1 \in BOOLEAN, n2 \in BOOLEAN :
           /\ n1 => Len(f1) = 0
           /\ n2 => Len(f2) = 0
           /\ LET a == SliceLiteral(f1, <<>>)
                  b == SliceLiteral(f2, a.h)
                  s1 == IF n1 THEN NilSlice ELSE a.s
                  s2 == IF n2 THEN NilSlice ELSE b.s
              IN  /\ heap = b.h
                  /\ fs = s1
                  /\ got = s2
                  /\ err = Box([Code |-> c1, Message |-> m1, ErrorFields |-> s1])
                  /\ v = [Code |-> c2, Message |-> m2, ErrorFields |-> s2]
    /\ origin = "literal"
    /\ ok = FALSE
    /\ ret = NoRet
    /\ writes = 0
    /\ threads = [t \in Threads |-> Idle]

\* a, b = err.(Error).String(), v.String()
CallStringBoth ==
    /\ ret.op = "none"
    /\ ret' = [op |-> "StringBoth",
               a |-> String(err.val, heap),
               b |-> String(v, heap)]
    /\ UNCHANGED <<threads, heap, fs, err, origin, v, ok, got, writes>>

NextRender ==
    CallStringBoth

SpecRender == InitRender /\ [][NextRender]_vars

\* ------------------------------------- goroutines calling on the same error
\* the names the goroutines look up
ThreadNames == {"", "a"}

\* One error shared by all goroutines: New(c, m, elems...), nil, or
\* errors.New(m).
InitThreads ==
    /\ \E elems \in SeqsUpTo(ErrorFieldValues, MaxFields), c \in Codes,
          m \in Messages, kind \in {"New", "nil", "errors.New"} :
           /\ kind # "New" => Len(elems) = 0 /\ c = 0
           /\ kind = "nil" => m = ""
           /\ LET a == SliceLiteral(elems, <<>>)
                  r == New(c, m, a.s, a.h)
              IN  /\ fs = a.s
                  /\ heap = r.h
                  /\ origin = kind
                  /\ err = IF kind = "New" THEN Box(r.e)
                           ELSE IF kind = "nil" THEN NilErr
                           ELSE [dyn |-> "*errors.errorString",
                                 val |-> ZeroError, msg |-> m]
    /\ v = ZeroError
    /\ ok = FALSE
    /\ got = NilSlice
    /\ ret = NoRet
    /\ writes = 0
    /\ threads = [t \in Threads |-> Idle]

\* a call that has returned res
Done(op, name, res) ==
    [pc |-> "done", op |-> op, name |-> name, res |-> res]

\* A call that reads err and returns at once: Parse, the accessors without
\* a loop, and the methods without a loop on the Error held in err.
CallAtOnce(t) ==
    /\ threads[t].pc = "idle"
    /\ ~Parse(err).panic
    /\ \E op \in {"Parse", "GetErrorCode", "IsErrorCodeEqual", "HasErrorFields",
                  "ErrorFieldCount", "IsEmpty", "Error"} :
           /\ op \in {"IsEmpty", "Error"} => err.dyn = "Error"
           /\ threads' = [threads EXCEPT ![t] = Done(op, "",
                  CASE op = "Parse" -> Parse(err)
                    [] op = "GetErrorCode" -> GetErrorCode(err)
                    [] op = "IsErrorCodeEqual" -> IsErrorCodeEqual(err, err.val.Code)
                    [] op = "HasErrorFields" -> HasErrorFields(err)
                    [] op = "ErrorFieldCount" -> ErrorFieldCount(err)
                    [] op = "IsEmpty" -> IsEmpty(err.val)
                    [] op = "Error" -> Error(err.val))]
    /\ UNCHANGED <<heap, fs, err, origin, v, ok, got, ret, writes>>

\* what a call with a loop returns when Parse does not match or the Error
\* has no field
Shortcut(op, e) ==
    CASE op = "HasErrorField" -> FALSE
      [] op = "GetErrorFieldMessage" -> ""
      [] op = "GetErrorFields" -> NilSlice
      [] op = "String" -> "Error{Code: " \o Itoa(e.Code)
                              \o ", Message: " \o Quote(e.Message) \o "}"

\* The head of a call with a loop, up to the loop: HasErrorField and
\* GetErrorFieldMessage parse err; GetErrorFields parses err and makes the
\* slice it will fill; String writes the head of the rendering.
BeginLoop(t) ==
    /\ threads[t].pc = "idle"
    /\ ~Parse(err).panic
    /\ \E op \in {"HasErrorField", "GetErrorFieldMessage", "GetErrorFields",
                  "String"},
          n \in ThreadNames :
           /\ op \in {"GetErrorFields", "String"} => n = ""
           /\ op = "String" => err.dyn = "Error"
           /\ LET p == Parse(err)
                  m == Make(p.v.ErrorFields.len, heap)
              IN  IF ~p.ok \/ p.v.ErrorFields.len = 0
                  THEN /\ threads' = [threads EXCEPT ![t] =
                                         Done(op, n, Shortcut(op, p.v))]
                       /\ heap' = heap
                  ELSE /\ threads' = [threads EXCEPT ![t] =
                              [pc |-> "loop", op |-> op, name |-> n,
                               e |-> p.v, i |-> 1,
                               acc |-> IF op = "GetErrorFields" THEN m.s
                                       ELSE IF op = "String"
                                       THEN "Error{Code: " \o Itoa(p.v.Code)
                                                \o ", Message: "
                                                \o Quote(p.v.Message)
                                                \o ", ErrorFields: ["
                                       ELSE ""]]
                       /\ heap' = IF op = "GetErrorFields" THEN m.h ELSE heap
    /\ UNCHANGED <<fs, err, origin, v, ok, got, ret, writes>>

\* copy(dst, src) moving the wrong way
CopyElemSwapped(dst, src, i, h) ==
    [h EXCEPT ![src.ptr] = [@ EXCEPT ![i] = h[dst.ptr][i]]]

\* copy(dst, src), element i
CopyElem(dst, src, i, h) ==
    [h EXCEPT ![dst.ptr] = [@ EXCEPT ![i] = h[src.ptr][i]]]

\* a loop that stays at the entry it has just visited
AdvanceStuck(s) ==
    s

\* the loop moves on to the next entry
Advance(s) ==
    [s EXCEPT !.i = s.i + 1]

\* One turn of the loop of a call: it reads element i of the Error's array,
\* or leaves the loop when i is past the last element.
StepLoop(t) ==
    /\ threads[t].pc = "loop"
    /\ LET s == threads[t]
           past == s.i > s.e.ErrorFields.len
           field == heap[s.e.ErrorFields.ptr][s.i]
           next == Advance(s)
       IN  CASE s.op = "HasErrorField" ->
                  /\ threads' = [threads EXCEPT ![t] =
                         IF past THEN Done(s.op, s.name, FALSE)
                         ELSE IF field.Field = s.name
                         THEN Done(s.op, s.name, TRUE)
                         ELSE next]
                  /\ heap' = heap
             [] s.op = "GetErrorFieldMessage" ->
                  /\ threads' = [threads EXCEPT ![t] =
                         IF past THEN Done(s.op, s.name, "")
                         ELSE IF field.Field = s.name
                         THEN Done(s.op, s.name, field.Message)
                         ELSE next]
                  /\ heap' = heap
             [] s.op = "String" ->
                  /\ threads' = [threads EXCEPT ![t] =
                         IF past THEN Done(s.op, s.name, s.acc \o "]}")
                         ELSE [next EXCEPT !.acc =
                                  s.acc \o (IF s.i > 1 THEN ", " ELSE "")
                                      \o "{Field: " \o Quote(field.Field)
                                      \o ", Message: " \o Quote(field.Message)
                                      \o "}"]]
                  /\ heap' = heap
             [] s.op = "GetErrorFields" ->
                  /\ threads' = [threads EXCEPT ![t] =
                         IF past THEN Done(s.op, s.name, s.acc) ELSE next]
                  /\ heap' = IF past THEN heap
                             ELSE CopyElem(s.acc, s.e.ErrorFields, s.i, heap)
             [] s.op = "New" ->
                  /\ threads' = [threads EXCEPT ![t] =
                         IF past
                         THEN Done(s.op, s.name,
                                   [s.e EXCEPT !.ErrorFields = s.acc])
                         ELSE next]
                  /\ heap' = IF past THEN heap
                             ELSE CopyElem(s.acc, s.e.ErrorFields, s.i, heap)
    /\ UNCHANGED <<fs, err, origin, v, ok, got, ret, writes>>

\* The goroutine drops the result; a slice it was given is collected.
Return(t) ==
    /\ threads[t].pc = "done"
    /\ threads' = [threads EXCEPT ![t] = Idle]
    /\ heap' = IF threads[t].op = "GetErrorFields" /\ ~threads[t].res.isnil
               THEN [a \in DOMAIN heap \ {threads[t].res.ptr} |-> heap[a]]
               ELSE IF threads[t].op = "New"
                       /\ ~threads[t].res.ErrorFields.isnil
               THEN [a \in DOMAIN heap \ {threads[t].res.ErrorFields.ptr}
                        |-> heap[a]]
               ELSE heap
    /\ UNCHANGED <<fs, err, origin, v, ok, got, ret, writes>>

NextThreads ==
    \E t \in Threads :
        \/ CallAtOnce(t)
        \/ BeginLoop(t)
        \/ StepLoop(t)
        \/ Return(t)

SpecThreads == InitThreads /\ [][NextThreads]_vars

\* The head of New(c, m, fs...), up to the copy: the goroutine builds an
\* Error of its own with the code and the message of err from the slice fs,
\* and makes the array the copy will fill; without fields New returns at
\* once.
BeginNew(t) ==
    /\ threads[t].pc = "idle"
    /\ LET m == Make(fs.len, heap)
           e == [Code |-> err.val.Code, Message |-> err.val.Message,
                 ErrorFields |-> fs]
       IN  IF fs.len > 0
           THEN /\ threads' = [threads EXCEPT ![t] =
                       [pc |-> "loop", op |-> "New", name |-> "", e |-> e,
                        i |-> 1, acc |-> m.s]]
                /\ heap' = m.h
           ELSE /\ threads' = [threads EXCEPT ![t] =
                       Done("New", "", [e EXCEPT !.ErrorFields = NilSlice])]
                /\ heap' = heap
    /\ UNCHANGED <<fs, err, origin, v, ok, got, ret, writes>>

NextLoops ==
    \E t \in Threads :
        \/ CallAtOnce(t)
        \/ BeginLoop(t)
        \/ BeginNew(t)
        \/ StepLoop(t)
        \/ Return(t)

\* The shared error as in InitThreads; one built by New has the code 404
\* and a message, neither of which steers a loop.
InitLoops ==
    /\ InitThreads
    /\ origin = "New" => err.val.Code = 404 /\ err.val.Message # ""

\* A goroutine inside a loop is scheduled again: the runtime preempts the
\* goroutines and runs every runnable one.
SpecLoops ==
    /\ InitLoops
    /\ [][NextLoops]_vars
    /\ \A t \in Threads : WF_vars(StepLoop(t))

\* ------------------------------------------- the earlier versions of error.go
\* New(code, message, errorFields...) of the earlier versions: the variadic
\* slice itself becomes the ErrorFields member; the heap is left as it is
NewV1(code, message, errorFields) ==
    [Code |-> code, Message |-> message, ErrorFields |-> errorFields]

\* an assertion that hands back what it found inside a value of another type
AssertErrorLeaky(e) ==
    [v |-> e.val, ok |-> e.dyn = "Error"]

\* customError, isCustomError := err.(Error): the zero Error and false
\* unless the dynamic type is Error
AssertError(e) ==
    IF e.dyn = "Error"
    THEN [v |-> e.val, ok |-> TRUE]
    ELSE [v |-> ZeroError, ok |-> FALSE]

\* Parse(err) (bool, Error)
ParseV1(e) ==
    IF e.dyn = "nil"
    THEN <<FALSE, ZeroError>>
    ELSE LET a == AssertError(e)
         IN  <<a.ok, a.v>>

\* Parse(err) (Error, bool)
ParseV2(e) ==
    IF e.dyn = "nil"
    THEN <<ZeroError, FALSE>>
    ELSE LET a == AssertError(e)
         IN  <<a.v, a.ok>>

\* err = New(c, m, fs...), with New of the earlier versions
CallNewV1 ==
    /\ origin = "unset"
    /\ \E cm \in CodeMessages :
           /\ err' = Box(NewV1(cm[1], cm[2], fs))
           /\ ret' = [op |-> "New", code |-> cm[1], message |-> cm[2],
                      fields |-> Elems(fs, heap)]
    /\ origin' = "New"
    /\ UNCHANGED <<threads, heap, fs, v, ok, got, writes>>

\* the same err given to Parse of both earlier versions
CallParseBoth ==
    /\ origin # "unset"
    /\ ret' = [op |-> "ParseBoth", a |-> ParseV1(err), b |-> ParseV2(err)]
    /\ UNCHANGED <<threads, heap, fs, err, origin, v, ok, got, writes>>

NextV1 ==
    \/ CallNewV1
    \/ BoxNil
    \/ BoxErrorString
    \/ BoxPointer
    \/ BoxWrap
    \/ WriteCaller
    \/ AppendCaller
    \/ CallParseBoth

SpecV1 == Init /\ [][NextV1]_vars

\* --------------------------------------------------- field errors alone
\* Texts as the bytes Go stores: empty, ASCII, with leading, trailing and
\* inner whitespace, with punctuation, and UTF-8 encodings of non-ASCII text.
Texts ==
    {<<>>,
     <<97>>,
     <<32, 97>>,
     <<97, 32>>,
     <<32, 32, 102, 32, 32>>,
     <<9, 97, 10>>,
     <<97, 46, 98>>,
     <<105, 91, 48, 93>>,
     <<195, 169>>,
     <<208, 191, 208, 190>>,
     <<228, 184, 150>>}

\* nothing built yet
InitField ==
    /\ heap = <<>>
    /\ fs = NilSlice
    /\ err = NilErr
    /\ origin = "unset"
    /\ v = ZeroError
    /\ ok = FALSE
    /\ got = NilSlice
    /\ ret = NoRet
    /\ writes = 0
    /\ threads = [t \in Threads |-> Idle]

\* errField := NewErrorField(field, message)
CallNewErrorField ==
    /\ \E field \in Texts, message \in Texts :
           ret' = [op |-> "NewErrorField", field |-> field,
                   message |-> message,
                   val |-> NewErrorField(field, message)]
    /\ UNCHANGED <<threads, heap, fs, err, origin, v, ok, got, writes>>

NextField ==
    CallNewErrorField

SpecField == InitField /\ [][NextField]_vars

\* ------------------------------------------------------------- properties
\* the names a client may look up
LookupNames == FieldNames \cup {Modified.Field}

\* everything the accessors and String() report about the generic error e
Observed(e, h) ==
    [fields |-> LET r == GetErrorFields(e, h) IN Elems(r.s, r.h),
     has    |-> [n \in LookupNames |-> HasErrorField(e, n, h)],
     msg    |-> [n \in LookupNames |-> GetErrorFieldMessage(e, n, h)],
     count  |-> ErrorFieldCount(e),
     parsed |-> LET p == Parse(e) IN Elems(p.v.ErrorFields, h),
     str    |-> String(e.val, h)]

\* the slice s holds the client's Modified value within its length
HoldsModified(s) ==
    \E i \in 1..s.len : heap[s.ptr][i] = Modified

\* C1: Parse applied to New(c, m, fs...) boxed as an error matches, and gives
\* back the code c, the message m and the fields of fs in order.
RoundTrip ==
    ret.op = "New" =>
        LET p == Parse(err)
        IN  /\ p.ok
            /\ p.v.Code = ret.code
            /\ p.v.Message = ret.message
            /\ Elems(p.v.ErrorFields, heap) = ret.fields

RoundTripWitness ==
    /\ ret.op = "New"
    /\ ret.code < 0
    /\ Len(ret.fields) = 2
    /\ ret.fields[1] # ret.fields[2]

\* C2: Parse of nil and of any error whose dynamic type is not Error returns
\* the same pair: the zero Error (code 0, empty message, nil fields), false.
ParseMismatch ==
    (ret.op = "Parse" /\ err.dyn # "Error") =>
        /\ ok = FALSE
        /\ v = ZeroError
        /\ v.Code = 0 /\ v.Message = "" /\ v.ErrorFields.isnil

ParseMismatchWitness ==
    /\ ret.op = "Parse"
    /\ err.dyn = "*Error"
    /\ err.val.Code # 0
    /\ err.val.ErrorFields.len > 0

\* C3: IsErrorCodeEqual(err, code) is true exactly when err is an Error whose
\* code equals code; for nil and non-Error values it is false for every code.
CodeEqualIffStructured ==
    ret.op = "IsErrorCodeEqual" =>
        ret.val = (err.dyn = "Error" /\ err.val.Code = ret.code)

\* C4: after err = New(c, m, fs...), a write to an element of fs or an append
\* to fs by the caller changes nothing the accessors and String() report.
CopyOnConstruct ==
    [][(origin = "New" /\ writes' # writes /\ (WriteCaller \/ AppendCaller)) =>
           Observed(err', heap') = Observed(err, heap)]_vars

CopyOnConstructWitness ==
    /\ origin = "New"
    /\ err.dyn = "Error"
    /\ err.val.ErrorFields.len > 0
    /\ HoldsModified(fs)

\* C5: the slice GetErrorFields returns shares no storage with the error,
\* with the caller's slice or with a slice returned earlier, and a write to
\* it changes nothing the accessors report about err.
CopyOnExtract ==
    /\ [](got.len > 0 =>
             got.ptr \notin {err.val.ErrorFields.ptr, v.ErrorFields.ptr, fs.ptr})
    /\ []((ret.op = "GetErrorFields" /\ got.len > 0) => ret.fresh)
    /\ [][WriteGot => Observed(err', heap') = Observed(err, heap)]_vars

CopyOnExtractWitness ==
    /\ err.dyn = "Error"
    /\ got.len > 0
    /\ HoldsModified(got)

\* C6: after v, ok = Parse(err) with ok true, a write to an element of
\* v.ErrorFields changes nothing later calls on err observe.
ParseNoAlias ==
    [][(ok /\ WriteParsed) => Observed(err', heap') = Observed(err, heap)]_vars

\* C7: IsEmpty is true exactly when the code is 0, the message is empty and
\* the field sequence has no element, be it nil or allocated.
IsEmptyIff ==
    ret.op = "IsEmpty" =>
        LET e == Receiver(ret.recv)
        IN  ret.val = (/\ e.Code = 0
                       /\ e.Message = ""
                       /\ Elems(e.ErrorFields, heap) = <<>>)

IsEmptyIffWitness ==
    /\ ret.op = "IsEmpty"
    /\ ret.recv = "err"
    /\ ~err.val.ErrorFields.isnil
    /\ err.val.ErrorFields.len = 0
    /\ ret.val = TRUE

\* C8 as stated: every error built by New is not empty.
NewNeverEmpty ==
    (ret.op = "IsEmpty" /\ ret.recv = "err" /\ origin = "New") =>
        ret.val = FALSE

\* C8 amended: Error{} is empty, and New(c, m, fs...) is empty exactly when
\* c = 0, m = "" and fs has no element.
NewEmptyIffZeroArgs ==
    ret.op = "IsEmpty" =>
        /\ (ret.recv = "err" /\ origin = "New") =>
               ret.val = (err.val.Code = 0 /\ err.val.Message = "" /\ fs.len = 0)
        /\ Receiver(ret.recv) = ZeroError => ret.val = TRUE

NewEmptyWitness ==
    /\ ret.op = "IsEmpty"
    /\ ret.recv = "err"
    /\ origin = "New"
    /\ ret.val = TRUE

\* C9: GetErrorCode returns the stored code of an Error, whatever its sign,
\* and 0 for nil and for every other error.
GetErrorCodeStored ==
    ret.op = "GetErrorCode" =>
        ret.val = IF err.dyn = "Error" THEN err.val.Code ELSE 0

GetErrorCodeWitness ==
    /\ ret.op = "GetErrorCode"
    /\ err.dyn = "Error"
    /\ ret.val < 0

\* C10: for nil and for every error that is not an Error, HasErrorFields is
\* false, GetErrorFields is nil, ErrorFieldCount is 0, HasErrorField is false
\* and GetErrorFieldMessage is "" for every name.
NoMatchDefaults ==
    err.dyn # "Error" =>
        /\ ret.op = "HasErrorFields" => ret.val = FALSE
        /\ ret.op = "GetErrorFields" => got = NilSlice
        /\ ret.op = "ErrorFieldCount" => ret.val = 0
        /\ ret.op = "HasErrorField" => ret.val = FALSE
        /\ ret.op = "GetErrorFieldMessage" => ret.val = ""

NoMatchDefaultsWitness ==
    /\ ret.op = "GetErrorFields"
    /\ err.dyn = "*fmt.wrapError"
    /\ err.val.ErrorFields.len > 0
    /\ got = NilSlice

\* C11: GetErrorFieldMessage(err, n) on an Error returns the message of the
\* entry of least index named n, and "" when no entry is named n.
FirstMatch ==
    (ret.op = "GetErrorFieldMessage" /\ err.dyn = "Error") =>
        LET fields == Elems(err.val.ErrorFields, heap)
            hits == {i \in 1..Len(fields) : fields[i].Field = ret.name}
        IN  IF hits = {}
            THEN ret.val = ""
            ELSE \E i \in hits :
                     /\ \A j \in hits : i <= j
                     /\ ret.val = fields[i].Message

FirstMatchWitness ==
    /\ ret.op = "GetErrorFieldMessage"
    /\ err.dyn = "Error"
    /\ err.val.ErrorFields.len = 2
    /\ LET fields == Elems(err.val.ErrorFields, heap)
       IN  /\ fields[1].Field = ret.name
           /\ fields[2].Field = ret.name
           /\ fields[1].Message # fields[2].Message

\* C12: HasErrorField(err, n) is true exactly when err is an Error and some
\* entry's name is the very string n: case matters, nothing is trimmed, and
\* the empty name matches an entry whose name is empty.
HasErrorFieldExact ==
    ret.op = "HasErrorField" =>
        ret.val = (/\ err.dyn = "Error"
                   /\ \E i \in 1..err.val.ErrorFields.len :
                          heap[err.val.ErrorFields.ptr][i].Field = ret.name)

HasErrorFieldExactWitness ==
    /\ ret.op = "HasErrorField"
    /\ err.dyn = "Error"
    /\ ret.name = "A"
    /\ ret.val = FALSE
    /\ \E i \in 1..err.val.ErrorFields.len :
           heap[err.val.ErrorFields.ptr][i].Field = "a"

\* C13: on an Error built by New or written as a literal from the slice fs,
\* ErrorFieldCount is the number of entries of fs, duplicates counted, and
\* HasErrorFields is true exactly when that number is positive; nil and
\* allocated empty slices both give 0 and false.
CountAndHasFields ==
    (err.dyn = "Error" /\ origin \in {"New", "literal"}) =>
        /\ ret.op = "ErrorFieldCount" => ret.val = Len(Elems(fs, heap))
        /\ ret.op = "HasErrorFields" => ret.val = (Len(Elems(fs, heap)) > 0)

CountAndHasFieldsWitness ==
    /\ ret.op = "HasErrorFields"
    /\ err.dyn = "Error"
    /\ origin = "literal"
    /\ ~err.val.ErrorFields.isnil
    /\ err.val.ErrorFields.len = 0
    /\ ret.val = FALSE

\* C14: GetErrorFields on an Error not written to since it was built from fs
\* returns the entries of fs in order when there is one at least, and the
\* nil slice, never an allocated empty one, when there is none.
GetErrorFieldsInOrder ==
    (ret.op = "GetErrorFields" /\ err.dyn = "Error" /\ writes = 0) =>
        IF fs.len > 0
        THEN /\ ~got.isnil
             /\ got.len = fs.len
             /\ \A i \in 1..fs.len : heap[got.ptr][i] = heap[fs.ptr][i]
        ELSE got = NilSlice

GetErrorFieldsInOrderWitness ==
    /\ ret.op = "GetErrorFields"
    /\ err.dyn = "Error"
    /\ writes = 0
    /\ got.len = 2
    /\ heap[got.ptr][1] # heap[got.ptr][2]

\* C15: New given no field, be fs nil or an empty slice, stores the nil
\* slice, so that HasErrorFields is false and IsEmpty looks only at the code
\* and the message.
NewNoFieldsIsNil ==
    (ret.op = "New" /\ fs.len = 0) =>
        /\ err.val.ErrorFields = NilSlice
        /\ HasErrorFields(err) = FALSE
        /\ IsEmpty(err.val) = (ret.code = 0 /\ ret.message = "")

NewNoFieldsIsNilWitness ==
    /\ ret.op = "New"
    /\ ~fs.isnil
    /\ fs.len = 0

\* C16: e.Error() is the stored message and nothing else; for an Error boxed
\* in err it is the message of the value Parse(err) returns.
ErrorIsMessage ==
    ret.op = "Error" =>
        /\ ret.val = Receiver(ret.recv).Message
        /\ ret.recv = "err" => ret.val = Parse(err).v.Message

ErrorIsMessageWitness ==
    /\ ret.op = "Error"
    /\ ret.recv = "err"
    /\ ret.val # ""
    /\ err.val.Code # 0
    /\ err.val.ErrorFields.len > 0

\* C17: String() renders Error{Code: <decimal>, Message: <quoted>} when the
\* error has no field, be the slice nil or empty, and otherwise the same
\* up to the quoted message, then ", ErrorFields: [", the fields as
\* {Field: <quoted>, Message: <quoted>} joined by ", " in stored order, "]}".
StringFormat ==
    ret.op = "String" =>
        LET e == Receiver(ret.recv)
            fields == Elems(e.ErrorFields, heap)
            head == "Error{Code: " \o Itoa(e.Code)
                        \o ", Message: " \o Quote(e.Message)
            One(f) == "{Field: " \o Quote(f.Field)
                          \o ", Message: " \o Quote(f.Message) \o "}"
            RECURSIVE Join(_)
            Join(s) == IF Len(s) = 1 THEN One(s[1])
                       ELSE One(s[1]) \o ", " \o Join(Tail(s))
        IN  /\ ret.val = IF Len(fields) = 0
                         THEN head \o "}"
                         ELSE head \o ", ErrorFields: [" \o Join(fields) \o "]}"
            /\ (e.Code = 0 - 1 /\ e.Message = "" /\ Len(fields) = 0)
                   => ret.val = "Error{Code: -1, Message: \"\"}"
            /\ (/\ e.Code = 404
                /\ e.Message = "q\"\\"
                /\ fields = <<NewErrorField("a", "x"),
                              NewErrorField("", "z\"\\")>>)
                   => ret.val = "Error{Code: 404, Message: \"q\\\"\\\\\", "
                                    \o "ErrorFields: "
                                    \o "[{Field: \"a\", Message: \"x\"}, "
                                    \o "{Field: \"\", Message: \"z\\\"\\\\\"}]}"

StringFormatWitness ==
    /\ ret.op = "String"
    /\ Receiver(ret.recv).Code = 404
    /\ Receiver(ret.recv).Message = "q\"\\"
    /\ Elems(Receiver(ret.recv).ErrorFields, heap)
           = <<NewErrorField("a", "x"), NewErrorField("", "z\"\\")>>

\* C18: String() escapes every double quote and backslash of the message and
\* of the fields' texts, so the quoted texts can be read back, and two errors
\* render to the same string exactly when they have the same code, the same
\* message and the same fields position by position, a nil slice and an
\* empty one counting as the same.
StringInjective ==
    ret.op = "StringBoth" =>
        LET f1 == Elems(err.val.ErrorFields, heap)
            f2 == Elems(v.ErrorFields, heap)
            texts == {err.val.Message, v.Message}
                         \cup {f1[i].Field : i \in 1..Len(f1)}
                         \cup {f1[i].Message : i \in 1..Len(f1)}
                         \cup {f2[i].Field : i \in 1..Len(f2)}
                         \cup {f2[i].Message : i \in 1..Len(f2)}
            Bad == [ok |-> FALSE, s |-> ""]
            RECURSIVE Unescape(_, _)
            Unescape(q, i) ==
                IF i >= Len(q) THEN [ok |-> i = Len(q), s |-> ""]
                ELSE LET c == SubSeq(q, i, i)
                     IN  IF c = "\""
                         THEN Bad
                         ELSE IF c = "\\"
                         THEN IF i + 1 >= Len(q)
                                  \/ SubSeq(q, i + 1, i + 1) \notin {"\"", "\\"}
                              THEN Bad
                              ELSE LET r == Unescape(q, i + 2)
                                   IN  [ok |-> r.ok,
                                        s |-> SubSeq(q, i + 1, i + 1) \o r.s]
                         ELSE LET r == Unescape(q, i + 1)
                              IN  [ok |-> r.ok, s |-> c \o r.s]
            Unquote(q) ==
                IF Len(q) < 2 \/ SubSeq(q, 1, 1) # "\""
                       \/ SubSeq(q, Len(q), Len(q)) # "\""
                THEN Bad
                ELSE Unescape(q, 2)
        IN  /\ (ret.a = ret.b) <=> (/\ err.val.Code = v.Code
                                    /\ err.val.Message = v.Message
                                    /\ f1 = f2)
            /\ \A s \in texts : Unquote(Quote(s)) = [ok |-> TRUE, s |-> s]

StringInjectiveWitness ==
    /\ ret.op = "StringBoth"
    /\ err.val.Code = v.Code
    /\ err.val.Message = v.Message
    /\ Elems(err.val.ErrorFields, heap)
           = <<NewErrorField("a\", Message: \"b", "c")>>
    /\ Elems(v.ErrorFields, heap)
           = <<NewErrorField("a", "b\", Message: \"c")>>
    /\ ret.a # ret.b

\* C19: no call fails: whatever err holds (nil, a value of another type, an
\* Error with a nil or an empty slice, with duplicate or empty names, with a
\* negative code), the type assertion that Parse and every accessor start
\* with does not panic, New returns an Error, and every call that has
\* returned has returned a value of its result type.
Total ==
    /\ ~Parse(err).panic
    /\ ret.op = "New" => err.dyn = "Error" /\ err.val.Code \in Int
    /\ ret.op \in {"IsErrorCodeEqual", "HasErrorFields", "HasErrorField",
                   "IsEmpty"} => ret.val \in BOOLEAN
    /\ ret.op \in {"GetErrorCode", "ErrorFieldCount"} => ret.val \in Int
    /\ ret.op \in {"GetErrorFieldMessage", "String", "Error"}
           => ret.val \in STRING
    /\ ret.op = "Parse" => ok \in BOOLEAN /\ v.Code \in Int
    /\ ret.op = "GetErrorFields" => got.len \in 0..got.cap

TotalWitness ==
    /\ ret.op = "GetErrorFieldMessage"
    /\ err.dyn = "*errors.errorString"
    /\ ret.val = ""

\* C20: while several goroutines run Parse, the accessors and the methods on
\* one error, their memory accesses interleaved, no step changes the error,
\* its code, its message or the array of its fields, and every call returns
\* what the same call returns when it runs alone.
ConcurrentReads ==
    /\ [][/\ err' = err
          /\ Elems(err'.val.ErrorFields, heap')
                 = Elems(err.val.ErrorFields, heap)]_vars
    /\ [](\A t \in Threads :
              threads[t].pc = "done" =>
                  LET s == threads[t]
                  IN  CASE s.op = "Parse" -> s.res = Parse(err)
                        [] s.op = "GetErrorCode" -> s.res = GetErrorCode(err)
                        [] s.op = "IsErrorCodeEqual" ->
                               s.res = IsErrorCodeEqual(err, err.val.Code)
                        [] s.op = "HasErrorFields" ->
                               s.res = HasErrorFields(err)
                        [] s.op = "ErrorFieldCount" ->
                               s.res = ErrorFieldCount(err)
                        [] s.op = "IsEmpty" -> s.res = IsEmpty(err.val)
                        [] s.op = "Error" -> s.res = Error(err.val)
                        [] s.op = "HasErrorField" ->
                               s.res = HasErrorField(err, s.name, heap)
                        [] s.op = "GetErrorFieldMessage" ->
                               s.res = GetErrorFieldMessage(err, s.name, heap)
                        [] s.op = "String" -> s.res = String(err.val, heap)
                        [] s.op = "GetErrorFields" ->
                               LET r == GetErrorFields(err, heap)
                               IN  /\ s.res.isnil = r.s.isnil
                                   /\ Elems(s.res, heap) = Elems(r.s, r.h))

ConcurrentReadsWitness ==
    /\ threads[1].pc = "loop"
    /\ threads[1].op = "GetErrorFields"
    /\ threads[1].i = 2
    /\ threads[2].pc = "done"
    /\ threads[2].op = "HasErrorField"
    /\ threads[2].res = TRUE

\* C21: the value Parse returns with false is empty and renders as
\* Error{Code: 0, Message: ""}; the value it returns with true for an Error
\* of code 0, empty message and no field is empty too and renders the same,
\* so only the boolean tells the two apart; the value it returns with true
\* for an Error with a non-zero code, a message or a field is not empty.
ParseEmptiness ==
    ret.op = "Parse" =>
        /\ ~ok => /\ IsEmpty(v)
                  /\ String(v, heap) = "Error{Code: 0, Message: \"\"}"
        /\ ok => IsEmpty(v) = (/\ err.val.Code = 0
                               /\ err.val.Message = ""
                               /\ err.val.ErrorFields.len = 0)
        /\ (ok /\ IsEmpty(v))
               => String(v, heap) = "Error{Code: 0, Message: \"\"}"

ParseEmptinessWitness ==
    /\ ret.op = "Parse"
    /\ origin = "New"
    /\ ok
    /\ IsEmpty(v)

AccessorsAgree ==
    LET g == GetErrorFields(err, heap)
        elems == Elems(g.s, g.h)
    IN  /\ ret.op = "ErrorFieldCount" => ret.val = Len(elems)
        /\ ret.op = "HasErrorFields" =>
               /\ ret.val = (ErrorFieldCount(err) > 0)
               /\ ret.val = ~g.s.isnil
        /\ ret.op = "HasErrorField" =>
               ret.val = (\E i \in 1..Len(elems) : elems[i].Field = ret.name)
        /\ ret.op = "GetErrorFieldMessage" =>
               (ret.val # "" => HasErrorField(err, ret.name, heap))
        /\ ret.op = "GetErrorFields" =>
               /\ got.len = ErrorFieldCount(err)
               /\ ~got.isnil = HasErrorFields(err)

AccessorsAgreeWitness ==
    /\ ret.op = "GetErrorFieldMessage"
    /\ err.val.ErrorFields.len = 2
    /\ ret.val = ""
    /\ HasErrorField(err, ret.name, heap)

ExclusiveStorage ==
    [][(/\ origin = "New"
        /\ err.dyn = "Error"
        /\ ok
        /\ v.ErrorFields.len > 0
        /\ WriteParsed) =>
           LET before == GetErrorFields(err, heap)
               after == GetErrorFields(err', heap')
           IN  /\ Elems(after.s, after.h) = Elems(before.s, before.h)
               /\ \A n \in LookupNames :
                      GetErrorFieldMessage(err', n, heap')
                          = GetErrorFieldMessage(err, n, heap)
               /\ String(err'.val, heap') = String(err.val, heap)]_vars

\* C22: NewErrorField(field, message) returns an ErrorField whose Field is
\* field and whose Message is message, byte for byte, for the empty text,
\* for texts with leading or trailing whitespace and for non-ASCII text.
NewErrorFieldExact ==
    ret.op = "NewErrorField" =>
        /\ ret.val.Field = ret.field
        /\ ret.val.Message = ret.message
        /\ Len(ret.val.Field) = Len(ret.field)
        /\ Len(ret.val.Message) = Len(ret.message)
        /\ DOMAIN ret.val = {"Field", "Message"}

NewErrorFieldExactWitness ==
    /\ ret.op = "NewErrorField"
    /\ ret.field = <<32, 32, 102, 32, 32>>
    /\ ret.message = <<208, 191, 208, 190>>
    /\ ret.val = [Field |-> <<32, 32, 102, 32, 32>>,
                  Message |-> <<208, 191, 208, 190>>]

\* C26: New of the earlier versions keeps a copy of the fields it is given:
\* after e := New(c, m, fs...), a write to an element of the caller's fs
\* does not change the elements of e.ErrorFields.
NewV1KeepsCopy ==
    [][(/\ origin = "New"
        /\ err.val.ErrorFields.len > 0
        /\ WriteCaller) =>
           Elems(err'.val.ErrorFields, heap') = Elems(err.val.ErrorFields, heap)]_vars

\* C27: on every err the two earlier versions of Parse and the present one
\* return the same boolean and the same Error (code, message, fields), the
\* pair in either order, and the zero Error whenever the boolean is false.
ParseVariantsAgree ==
    ret.op = "ParseBoth" =>
        LET p == Parse(err)
        IN  /\ ret.a[1] = ret.b[2]
            /\ ret.a[2] = ret.b[1]
            /\ ret.a[1] = p.ok
            /\ ret.a[2] = p.v
            /\ Elems(ret.a[2].ErrorFields, heap) = Elems(p.v.ErrorFields, heap)
            /\ ~ret.a[1] => ret.a[2] = ZeroError /\ ret.b[1] = ZeroError
            /\ ret.a[1] = (err.dyn = "Error")

ParseVariantsAgreeWitness ==
    /\ ret.op = "ParseBoth"
    /\ err.dyn = "Error"
    /\ err.val.Code = 404
    /\ err.val.ErrorFields.len = 2
    /\ ret.a = <<TRUE, err.val>>
    /\ ret.b = <<err.val, TRUE>>

\* the calls that run a loop over the field entries
LoopOps ==
    {"HasErrorField", "GetErrorFieldMessage", "GetErrorFields", "String",
     "New"}

\* C30: every call returns: a goroutine inside the lookup of HasErrorField
\* or GetErrorFieldMessage, the copy of New or GetErrorFields, or the
\* rendering loop of String() leaves it at last; each turn of a loop moves on
\* to the next entry, so no entry is visited twice and the index never
\* passes the end by more than one; every other call returns in the step
\* that began it.
Terminates ==
    /\ \A t \in Threads :
           (threads[t].pc = "loop") ~> (threads[t].pc = "done")
    /\ [][\A t \in Threads :
              /\ (threads[t].pc = "loop" /\ threads'[t] # threads[t]) =>
                     \/ threads'[t].pc = "done"
                     \/ /\ threads'[t].pc = "loop"
                        /\ threads'[t].i = threads[t].i + 1
              /\ (threads[t].pc = "idle" /\ threads'[t].pc = "loop") =>
                     /\ threads'[t].op \in LoopOps
                     /\ threads'[t].i = 1]_vars
    /\ [](\A t \in Threads :
              threads[t].pc = "loop" =>
                  threads[t].i \in 1..(threads[t].e.ErrorFields.len + 1))

TerminatesWitness ==
    /\ threads[1].pc = "done"
    /\ threads[1].op = "String"
    /\ err.val.ErrorFields.len = MaxFields
    /\ threads[2].pc = "loop"
    /\ threads[2].op = "New"
    /\ threads[2].i = 2

====
